---- MODULE Spec2Model ----
(***************************************************************************)
(* Model of the earthquake stream consumer                                 *)
(* (consumers/earthquake_consumer_aaron.py): the quake buffer, the rolling *)
(* window, the clustering of the window and what is drawn from it; and of  *)
(* the producer (producers/earthquake_producer_aaron.py): the polls of the *)
(* feed, the events it yields and the Kafka topic it sends them to.        *)
(*                                                                         *)
(* Spec is the consumer fed with any message; Windows is the consumer fed  *)
(* with well-formed quakes in every order; Pipeline is the producer        *)
(* polling the feed and the consumer reading what arrives on its topic.    *)
(*                                                                         *)
(* Time is counted in whole minutes; one call of process_message reads the *)
(* clock twice (the quake's time stamp, the window's cutoff) within the    *)
(* same minute.  Coordinates are whole degrees.  Distances are metres,     *)
(* rounded to the nearest metre.                                           *)
(***************************************************************************)
EXTENDS Integers, Sequences, FiniteSets, TLC

(***************************************************************************)
(* Program constants                                                       *)
(***************************************************************************)
\* Rolling window duration (minutes)
ROLLING_MINUTES == 90

\* Cluster proximity (km)
CLUSTER_RADIUS_KM == 200

\* DBSCAN(..., min_samples=2, ...)
min_samples == 2

\* "if len(members) >= 2" before a cluster circle is drawn
MIN_MEMBERS == 2

\* DBSCAN's label of a point that belongs to no cluster
NOISE == -1

\* kms_per_radian = 6371.0088: one degree of arc of a great circle, in metres
\* (6371.0088 km * pi / 180 = 111.19508 km)
METERS_PER_DEGREE == 111195

\* A JSON value that is a string where a number is expected ("a", "big").
\* Python keeps it as a str; every arithmetic use of it raises.
Str == -1000000

\* A quake dict that has no "cluster" key yet.
NoCluster == -2

(***************************************************************************)
(* Bounds of the model                                                     *)
(***************************************************************************)
\* most quakes ever appended to quake_data
MaxQuakes == 4

\* the clock stops advancing here
MaxNow == 91

\* minutes the clock advances between two messages
TickSteps == {45, 46}

\* most polls of the feed
MaxPolls == 3

\* most features in one response of the feed
MaxFeatures == 2

(***************************************************************************)
(* The places quakes are reported at: (lat, lon) in degrees.               *)
(*   AK1 lies in the Alaska inset (lon < -130 and lat > 50);               *)
(*   BC1, BC2, BC3 lie on the meridian 129 W, on the main map.             *)
(***************************************************************************)
Sites ==
  << [lat |-> 51, lon |-> -131],
     [lat |-> 51, lon |-> -129],
     [lat |-> 52, lon |-> -129],
     [lat |-> 53, lon |-> -129] >>

\* haversine(p, q, unit=KILOMETERS) on a sphere of radius 6371.0088 km,
\* evaluated for each pair of Sites, in metres.
HaversineTable ==
  << << 0,      139950, 177556, 261134 >>,
     << 139950, 0,      111195, 222390 >>,
     << 177556, 111195, 0,      111195 >>,
     << 261134, 222390, 111195, 0      >> >>

SiteIndex(lat, lon) ==
  CHOOSE i \in DOMAIN Sites : Sites[i].lat = lat /\ Sites[i].lon = lon

Abs(x) == IF x < 0 THEN -x ELSE x

\* Great-circle distance in metres between two points given in degrees.
\* Along a meridian the distance is the arc length of the latitude difference.
haversine(lat1, lon1, lat2, lon2) ==
  IF lon1 = lon2
    THEN METERS_PER_DEGREE * Abs(lat1 - lat2)
    ELSE HaversineTable[SiteIndex(lat1, lon1)][SiteIndex(lat2, lon2)]

(***************************************************************************)
(* sklearn.cluster.DBSCAN(eps, min_samples, metric='haversine')            *)
(*   .fit_predict(coords): pts is the sequence of [lat, lon] rows.         *)
(***************************************************************************)
\* radius_neighbors: the rows within eps of row i (row i itself included)
Neighborhood(pts, i, eps_m) ==
  { j \in DOMAIN pts :
      haversine(pts[i].lat, pts[i].lon, pts[j].lat, pts[j].lon) <= eps_m }

\* (mutant of IsCore: the row itself is not counted among its neighbours)
IsCore_without_self(pts, i, eps_m, min_pts) ==
  Cardinality(Neighborhood(pts, i, eps_m) \ {i}) >= min_pts

\* core_samples: the rows with at least min_samples rows within eps
IsCore(pts, i, eps_m, min_pts) ==
  Cardinality(Neighborhood(pts, i, eps_m)) >= min_pts

\* dbscan_inner's stack walk from a core point: every still unlabelled row
\* reached through neighbourhoods of core rows.
RECURSIVE Expand(_, _, _, _, _)
Expand(pts, labels, S, eps_m, min_pts) ==
  LET T == S \cup { v \in DOMAIN pts :
                      /\ labels[v] = NOISE
                      /\ \E u \in S : /\ IsCore(pts, u, eps_m, min_pts)
                                      /\ v \in Neighborhood(pts, u, eps_m) }
  IN IF T = S THEN S ELSE Expand(pts, labels, T, eps_m, min_pts)

RECURSIVE dbscan_inner(_, _, _, _, _, _)
dbscan_inner(pts, labels, i, label_num, eps_m, min_pts) ==
  IF i > Len(pts) THEN labels
  ELSE IF labels[i] # NOISE \/ ~IsCore(pts, i, eps_m, min_pts)
    THEN dbscan_inner(pts, labels, i + 1, label_num, eps_m, min_pts)
    ELSE LET C == Expand(pts, labels, {i}, eps_m, min_pts)
         IN dbscan_inner(pts,
                         [j \in DOMAIN pts |-> IF j \in C THEN label_num ELSE labels[j]],
                         i + 1, label_num + 1, eps_m, min_pts)

\* labels = db.fit_predict(coords_rad): one label per row, NOISE or 0, 1, ...
DBSCAN(pts, eps_m, min_pts) ==
  dbscan_inner(pts, [j \in DOMAIN pts |-> NOISE], 1, 0, eps_m, min_pts)

(***************************************************************************)
(* Quakes: the dicts of quake_data.  A list of quakes handed around by    *)
(* the plotting functions is a sequence of positions in quake_data: the   *)
(* Python lists hold references to the same dict objects.                  *)
(***************************************************************************)
Indices(quakes) == [i \in 1 .. Len(quakes) |-> i]

RECURSIVE SumSeq(_)
SumSeq(s) == IF s = << >> THEN 0 ELSE Head(s) + SumSeq(Tail(s))

RECURSIVE MaxSeq(_)
MaxSeq(s) ==
  IF Len(s) = 1 THEN Head(s)
  ELSE LET m == MaxSeq(Tail(s)) IN IF Head(s) >= m THEN Head(s) ELSE m

Range(s) == { s[k] : k \in DOMAIN s }

\* sorted(S) for a finite set of integers
RECURSIVE Sorted(_)
Sorted(S) ==
  IF S = {} THEN << >>
  ELSE LET m == CHOOSE x \in S : \A y \in S : x <= y
       IN << m >> \o Sorted(S \ {m})

\* (mutant of recent_quakes: a quake exactly minutes_back old is dropped)
recent_quakes_strict(quakes, t, minutes_back) ==
  LET time_cutoff == t - minutes_back
  IN SelectSeq(Indices(quakes), LAMBDA i : quakes[i].timestamp > time_cutoff)

\* recent_quakes = [q for q in quakes if q["timestamp"] >= time_cutoff]
recent_quakes(quakes, t, minutes_back) ==
  LET time_cutoff == t - minutes_back
  IN SelectSeq(Indices(quakes), LAMBDA i : quakes[i].timestamp >= time_cutoff)

\* q["lon"] < -130 and q["lat"] > 50
InAlaska(q) == q.lon < -130 /\ q.lat > 50

\* The comparison raises TypeError when it reaches a str ("and" evaluates
\* q["lat"] > 50 only when q["lon"] < -130 is true).
InAlaskaRaises(q) == q.lon = Str \/ (q.lon < -130 /\ q.lat = Str)

\* ak_quakes = [q for q in recent_quakes if q["lon"] < -130 and q["lat"] > 50]
ak_quakes(quakes, recent) ==
  SelectSeq(recent, LAMBDA i : InAlaska(quakes[i]))

\* (mutant of main_quakes: the main map takes every recent quake)
main_quakes_all(quakes, recent) == recent

\* main_quakes = [q for q in recent_quakes if q not in ak_quakes]
\* ("not in" compares dicts by value)
main_quakes(quakes, recent) ==
  LET ak == ak_quakes(quakes, recent)
  IN SelectSeq(recent, LAMBDA i : ~ \E k \in DOMAIN ak : quakes[ak[k]] = quakes[i])

\* haversine((avg_lat, avg_lon), (q["lat"], q["lon"])) in metres, the centroid
\* given as the sums of n members' coordinates.  Members of one cluster of
\* Sites share a meridian, where the distance is the arc of |avg_lat - lat|.
haversine_from_centroid(lat_sum, lon_sum, n, lat, lon) ==
  IF lon_sum = n * lon
    THEN (METERS_PER_DEGREE * Abs(lat_sum - n * lat)) \div n
    ELSE haversine(lat_sum \div n, lon_sum \div n, lat, lon)

\* (mutant of add_buffer: the buffer is taken off the distance)
add_buffer_inward(max_dist) == (max_dist * 8) \div 10

\* max_dist_km *= 1.2  # add some buffer
add_buffer(max_dist) == (max_dist * 12) \div 10

\* The body of "for label in unique_labels": the circle of one cluster, or no
\* circle when it has fewer than MIN_MEMBERS members.
cluster_circle(quakes, idxs, label) ==
  LET members == SelectSeq(idxs, LAMBDA i : quakes[i].cluster = label)
      n       == Len(members)
      lat_sum == SumSeq([k \in DOMAIN members |-> quakes[members[k]].lat])
      lon_sum == SumSeq([k \in DOMAIN members |-> quakes[members[k]].lon])
      max_dist == MaxSeq([k \in DOMAIN members |->
                    haversine_from_centroid(lat_sum, lon_sum, n,
                                            quakes[members[k]].lat,
                                            quakes[members[k]].lon)])
  IN IF n >= MIN_MEMBERS
       THEN << [label |-> label, members |-> members,
                lat_sum |-> lat_sum, lon_sum |-> lon_sum,
                radius |-> add_buffer(max_dist)] >>
       ELSE << >>

RECURSIVE cluster_circles(_, _, _)
cluster_circles(quakes, idxs, unique_labels) ==
  IF unique_labels = << >> THEN << >>
  ELSE cluster_circle(quakes, idxs, Head(unique_labels))
         \o cluster_circles(quakes, idxs, Tail(unique_labels))

\* (mutant of set_cluster: a quake that carries a label keeps it)
set_cluster_once(quake, label) ==
  IF quake.cluster = NoCluster THEN [quake EXCEPT !.cluster = label] ELSE quake

\* quake["cluster"] = label
set_cluster(quake, label) == [quake EXCEPT !.cluster = label]

\* The per-quake loop and the circle loop of plot_quakes_on_axis, given the
\* labels DBSCAN returned.
plot_labelled(quakes, idxs, labels) ==
  LET n == Len(idxs)
      unique_labels == Sorted(Range(labels) \ {NOISE})
      \* ax.plot(..., markersize=mag * 2) raises on a str magnitude; the
      \* quakes before it in the loop are plotted and labelled
      bad_mag == { k \in 1 .. n : quakes[idxs[k]].mag = Str }
      stop == IF bad_mag = {} THEN n + 1
              ELSE CHOOSE k \in bad_mag : \A j \in bad_mag : k <= j
      \* quake["cluster"] = label
      labelled == [i \in DOMAIN quakes |->
                     IF \E k \in 1 .. stop - 1 : idxs[k] = i
                       THEN set_cluster(quakes[i],
                                        labels[CHOOSE k \in 1 .. stop - 1 : idxs[k] = i])
                       ELSE quakes[i]]
      dots == [k \in 1 .. stop - 1 |-> [q |-> idxs[k], label |-> labels[k]]]
  IN IF stop <= n
       THEN [quakes |-> labelled, dots |-> dots, circles |-> << >>, raised |-> TRUE]
       ELSE [quakes |-> labelled, dots |-> dots,
             circles |-> cluster_circles(labelled, idxs, unique_labels),
             raised |-> FALSE]

\* plot_quakes_on_axis(ax, quakes, cluster_radius_km): the quakes after the
\* call, the dots and circles added to the axis, and whether it raised.
plot_quakes_on_axis(quakes, idxs, cluster_radius_km) ==
  LET n == Len(idxs)
      \* np.radians(coords) raises on an array that holds a str
      bad_coords == \E k \in 1 .. n :
                       quakes[idxs[k]].lat = Str \/ quakes[idxs[k]].lon = Str
      pts == [k \in 1 .. n |-> [lat |-> quakes[idxs[k]].lat, lon |-> quakes[idxs[k]].lon]]
  IN IF n = 0
       THEN [quakes |-> quakes, dots |-> << >>, circles |-> << >>, raised |-> FALSE]
     ELSE IF bad_coords
       THEN [quakes |-> quakes, dots |-> << >>, circles |-> << >>, raised |-> TRUE]
     ELSE plot_labelled(quakes, idxs,
                        DBSCAN(pts, cluster_radius_km * 1000, min_samples))

NoAxis == [dots |-> << >>, circles |-> << >>]

AxisOf(p) == [dots |-> p.dots, circles |-> p.circles]

\* The end of plot_earthquakes_with_clusters: m and a are what the two calls
\* of plot_quakes_on_axis returned; the status text is set last.
plot_status(recent, m, a, text0) ==
  LET last == a.quakes[recent[Len(recent)]]
  IN IF m.raised
       THEN [quakes |-> m.quakes, status |-> "failed", recent |-> recent,
             main |-> AxisOf(m), ak |-> NoAxis, text |-> text0]
     ELSE IF a.raised
       THEN [quakes |-> a.quakes, status |-> "failed", recent |-> recent,
             main |-> AxisOf(m), ak |-> AxisOf(a), text |-> text0]
     ELSE [quakes |-> a.quakes, status |-> "completed", recent |-> recent,
           main |-> AxisOf(m), ak |-> AxisOf(a),
           text |-> [mag |-> last.mag, lat |-> last.lat, lon |-> last.lon,
                     stamp |-> last.timestamp]]

\* plot_quakes_on_axis(ax_main, main_quakes, ...) and then, unless it raised,
\* plot_quakes_on_axis(ax_ak, ak_quakes, ...)
plot_axes(quakes, recent, m, cluster_radius_km, text0) ==
  plot_status(recent, m,
              IF m.raised THEN m
              ELSE plot_quakes_on_axis(m.quakes, ak_quakes(quakes, recent),
                                       cluster_radius_km),
              text0)

\* plot_earthquakes_with_clusters from "if not recent_quakes" on
plot_recent(quakes, recent, cluster_radius_km, main0, ak0, text0) ==
  IF recent = << >>
    THEN [quakes |-> quakes, status |-> "empty", recent |-> recent,
          main |-> main0, ak |-> ak0, text |-> text0]
  \* the axes are cleared, then the split into regions raises on a str
  ELSE IF \E k \in DOMAIN recent : InAlaskaRaises(quakes[recent[k]])
    THEN [quakes |-> quakes, status |-> "failed", recent |-> recent,
          main |-> NoAxis, ak |-> NoAxis, text |-> text0]
  ELSE plot_axes(quakes, recent,
                 plot_quakes_on_axis(quakes, main_quakes(quakes, recent),
                                     cluster_radius_km),
                 cluster_radius_km, text0)

\* plot_earthquakes_with_clusters(quakes, cluster_radius_km, minutes_back),
\* with t the value datetime.utcnow() returns in it, and the axes and the
\* status text as they are before the call.
plot_earthquakes_with_clusters(quakes, cluster_radius_km, minutes_back, t, main0, ak0, text0) ==
  plot_recent(quakes, recent_quakes(quakes, t, minutes_back),
              cluster_radius_km, main0, ak0, text0)

(***************************************************************************)
(* Messages: the strings handed to process_message.                        *)
(*   shape       "garbage" (json.loads raises JSONDecodeError), "array"    *)
(*               (valid JSON that is no object) or "object"                *)
(*   keys        the keys the object carries                               *)
(*   coordinates the list under "coordinates" ([lon, lat, depth])          *)
(*   mag         the value under "mag"                                     *)
(*   time        the value under "time" (minutes, as the clock counts)     *)
(***************************************************************************)
Msg(shape, keys, coordinates, mag, time) ==
  [shape |-> shape, keys |-> keys, coordinates |-> coordinates,
   mag |-> mag, time |-> time]

AllKeys == {"coordinates", "mag", "time", "id", "place"}

\* a quake report of magnitude 4 at each site
SiteMessages ==
  { Msg("object", {"coordinates", "mag"}, << Sites[i].lon, Sites[i].lat >>, 4, 0)
      : i \in DOMAIN Sites }

Messages ==
  SiteMessages \cup
  { Msg("garbage", {}, << >>, 0, 0),
    Msg("array", {}, << >>, 0, 0),
    Msg("object", {}, << >>, 0, 0),
    Msg("object", {"mag"}, << >>, 4, 0),
    Msg("object", {"coordinates"}, << -129, 51 >>, 0, 0),
    Msg("object", {"coordinates", "mag"}, << >>, 4, 0),
    Msg("object", {"coordinates", "mag"}, << -129 >>, 4, 0),
    Msg("object", {"coordinates", "mag"}, << -129, 51 >>, 0, 0),
    Msg("object", AllKeys, << -129, 51, 35 >>, 4, 7),
    Msg("object", {"coordinates", "mag"}, << Str, Str >>, 4, 0),
    Msg("object", {"coordinates", "mag"}, << -129, 51 >>, Str, 0) }

\* coords = message_dict.get("coordinates", None), taken as a condition
coords_truthy(m) == "coordinates" \in m.keys /\ m.coordinates # << >>

\* mag = message_dict.get("mag", None), taken as a condition: None and 0 are
\* false, a non-empty str is true
mag_truthy(m) == "mag" \in m.keys /\ m.mag # 0

(***************************************************************************)
(* State                                                                   *)
(***************************************************************************)
VARIABLES
  quake_data,   \* the global quake list
  now,          \* the clock: what datetime.utcnow() returns
  ax_main,      \* the dots and circles on the main map
  ax_ak,        \* the dots and circles on the Alaska inset
  status_text,  \* the quake the status text reports
  last_pass,    \* the last call of plot_earthquakes_with_clusters
  passes,       \* the number of calls of plot_earthquakes_with_clusters
  raised        \* whether an exception ever left process_message

VARIABLES
  PROJECT_TOPIC,  \* os.getenv("PROJECT_TOPIC"), the same for both programs
  producer,       \* main's producer: TRUE a KafkaProducer, FALSE None
  seen_ids,       \* the set seen_ids of fetch_earthquake_events
  data_file,      \* the events written to DATA_FILE: every event yielded
  kafka,          \* the messages of each Kafka topic, in the order sent
  consumed,       \* how many messages of its topic the consumer has read
  polls           \* the number of polls of the feed so far

cvars == << quake_data, now, ax_main, ax_ak, status_text, last_pass, passes, raised >>

pvars == << PROJECT_TOPIC, producer, seen_ids, data_file, kafka, consumed, polls >>

vars == << cvars, pvars >>

NoText == [mag |-> 0, lat |-> 0, lon |-> 0, stamp |-> -1]

\* the consumer when it starts
ConsumerInit ==
  /\ quake_data = << >>
  /\ now = 0
  /\ ax_main = NoAxis
  /\ ax_ak = NoAxis
  /\ status_text = NoText
  /\ last_pass = [status |-> "none", at |-> 0, recent |-> << >>]
  /\ passes = 0
  /\ raised = FALSE

\* os.getenv("PROJECT_TOPIC", ...) when the variable is not set
Unset == "<unset>"

\* the topics of the broker: the two defaults and a configured one
Topics == {"earthquake-events", "earthquake-topic", "quakes"}

\* the producer when it starts, with PROJECT_TOPIC as the environment has it
\* and connected telling whether KafkaProducer(...) succeeded
ProducerInit(topic, connected) ==
  /\ PROJECT_TOPIC = topic
  /\ producer = connected
  /\ seen_ids = {}
  /\ data_file = << >>
  /\ kafka = [t \in Topics |-> << >>]
  /\ consumed = 0
  /\ polls = 0

\* the consumer alone: no producer runs
Init == ConsumerInit /\ ProducerInit(Unset, FALSE)

\* (mutant of new_quake: the time the message carries is the time stamp)
new_quake_embedded(m, t) ==
  [lon |-> m.coordinates[1], lat |-> m.coordinates[2], mag |-> m.mag,
   timestamp |-> IF "time" \in m.keys THEN m.time ELSE t, cluster |-> NoCluster]

\* the dict process_message builds from a message, stamped at time t
new_quake(m, t) ==
  [lon |-> m.coordinates[1], lat |-> m.coordinates[2], mag |-> m.mag,
   timestamp |-> t, cluster |-> NoCluster]

\* "except json.JSONDecodeError" and "except Exception as e": whether the
\* handlers catch what the body raises
Caught == TRUE

\* (mutant of Dropped: the plot is called outside "if coords and mag")
Dropped_and_plotted(exception) ==
  /\ raised' = (raised \/ (exception /\ ~Caught))
  /\ passes' = passes + 1
  /\ UNCHANGED << quake_data, now, ax_main, ax_ak, status_text, last_pass >>

\* The paths of process_message that only log: the warning of the else
\* branch, or an exception raised before the quake is appended.
Dropped(exception) ==
  /\ raised' = (raised \/ (exception /\ ~Caught))
  /\ UNCHANGED << quake_data, now, ax_main, ax_ak, status_text, last_pass, passes >>

\* What process_message does with the quake it has built: append it to
\* quake_data and call plot_earthquakes_with_clusters.
ingest(m) ==
  plot_earthquakes_with_clusters(
    Append(quake_data, new_quake(m, now)),
    CLUSTER_RADIUS_KM, ROLLING_MINUTES, now,
    ax_main, ax_ak, status_text)

\* The path of process_message that appends the quake and plots.
Ingested(m) ==
  \E r \in { ingest(m) } :
    /\ quake_data' = r.quakes
    /\ ax_main' = r.main
    /\ ax_ak' = r.ak
    /\ status_text' = r.text
    /\ last_pass' = [status |-> r.status, at |-> now, recent |-> r.recent]
    /\ passes' = passes + 1
    /\ raised' = (raised \/ (r.status = "failed" /\ ~Caught))
    /\ UNCHANGED now

\* The path process_message takes on a message
path(m) ==
  IF m.shape = "garbage" THEN "invalid_json"                \* json.loads raises
  ELSE IF m.shape # "object" THEN "error"                   \* .get raises
  ELSE IF ~(coords_truthy(m) /\ mag_truthy(m)) THEN "missing"
  ELSE IF Len(m.coordinates) < 2 THEN "error"               \* coords[1] raises
  ELSE "ingest"

\* process_message(message)
process_message(m) ==
  IF path(m) = "ingest"
    THEN Len(quake_data) < MaxQuakes /\ Ingested(m)
    ELSE Dropped(path(m) # "missing")

\* time passes between two messages
Tick(s) ==
  /\ now + s <= MaxNow
  /\ now' = now + s
  /\ UNCHANGED << quake_data, ax_main, ax_ak, status_text, last_pass, passes, raised >>
  /\ UNCHANGED pvars

\* "for msg in consumer: process_message(msg.value)" with message m next on
\* the topic, whoever sent it
Receive(m) == process_message(m) /\ UNCHANGED pvars

Next ==
  \/ \E m \in Messages : Receive(m)
  \/ \E s \in TickSteps : Tick(s)

Spec == Init /\ [][Next]_vars

\* The consumer fed with well-formed quake reports from the Sites, all within
\* one minute: the window handed to the clustering is any sequence of up to
\* MaxQuakes Sites, in any order.
WindowsNext == \E m \in SiteMessages : Receive(m)

Windows == Init /\ [][WindowsNext]_vars

(***************************************************************************)
(* The producer: fetch_earthquake_events and the loop of main around it.   *)
(*                                                                         *)
(* A feature of the feed is a record                                       *)
(*   id        the value under "id"                                        *)
(*   has_time  whether properties carries a number under "time"            *)
(* and a response of the feed is a record                                  *)
(*   ok        FALSE when requests.get or response.json() raises           *)
(*   features  the list under "features"                                   *)
(***************************************************************************)
FeatureIds == {"q1", "q2", "q3"}

Features == [id : FeatureIds, has_time : BOOLEAN]

RECURSIVE FeatureLists(_)
FeatureLists(n) ==
  IF n = 0 THEN { << >> }
  ELSE FeatureLists(n - 1)
         \cup { Append(l, f) : l \in { x \in FeatureLists(n - 1) : Len(x) = n - 1 },
                               f \in Features }

Responses ==
  { [ok |-> FALSE, features |-> << >>] }
    \cup { [ok |-> TRUE, features |-> l] : l \in FeatureLists(MaxFeatures) }

\* where the quake of each id is: geometry.coordinates
SiteOf(id) == IF id = "q1" THEN Sites[2] ELSE IF id = "q2" THEN Sites[3] ELSE Sites[1]

\* producer: os.getenv("PROJECT_TOPIC", "earthquake-events")
get_kafka_topic_producer ==
  IF PROJECT_TOPIC = Unset THEN "earthquake-events" ELSE PROJECT_TOPIC

\* consumer: os.getenv("PROJECT_TOPIC", "earthquake-topic")
get_kafka_topic_consumer ==
  IF PROJECT_TOPIC = Unset THEN "earthquake-topic" ELSE PROJECT_TOPIC

\* json_event = {"id": ..., "mag": ..., "time": ..., "coordinates": coords},
\* as the message json.dumps makes of it
json_event(event) ==
  Msg("object", AllKeys,
      << SiteOf(event.id).lon, SiteOf(event.id).lat, 35 >>, 4, 7)

\* the "id" of a message
IdOf(message) ==
  CHOOSE id \in FeatureIds :
    message.coordinates = << SiteOf(id).lon, SiteOf(id).lat, 35 >>

\* (mutant of is_new: the set of seen ids is not consulted)
is_new_always(quake_id, seen) == TRUE

\* if quake_id not in seen_ids
is_new(quake_id, seen) == quake_id \notin seen

\* "for event in events" of one poll: the ids seen after it, the events it
\* yields, and whether building an event raised (props.get("time") / 1000
\* raises TypeError when "time" is missing), which ends the loop
RECURSIVE for_events(_, _, _)
for_events(events, seen, out) ==
  IF events = << >> THEN [seen |-> seen, yielded |-> out, raised |-> FALSE]
  ELSE IF ~is_new(Head(events).id, seen)
    THEN for_events(Tail(events), seen, out)
  \* seen_ids.add(quake_id) comes before json_event is built
  ELSE IF ~Head(events).has_time
    THEN [seen |-> seen \cup {Head(events).id}, yielded |-> out, raised |-> TRUE]
  ELSE for_events(Tail(events), seen \cup {Head(events).id},
                  Append(out, json_event(Head(events))))

\* One round of "while True" of fetch_earthquake_events, with the body of
\* main's loop run on each event it yields: the event is appended to
\* DATA_FILE and, if there is a producer, sent to the topic.
Poll(response) ==
  /\ polls < MaxPolls
  /\ polls' = polls + 1
  /\ \E r \in { IF response.ok
                  THEN for_events(response.features, seen_ids, << >>)
                  ELSE [seen |-> seen_ids, yielded |-> << >>, raised |-> TRUE] } :
       /\ seen_ids' = r.seen
       /\ data_file' = data_file \o r.yielded
       /\ kafka' = IF producer
                     THEN [kafka EXCEPT ![get_kafka_topic_producer] = @ \o r.yielded]
                     ELSE kafka
  /\ UNCHANGED << PROJECT_TOPIC, producer, consumed >>
  /\ UNCHANGED cvars

\* "for msg in consumer: process_message(msg.value)": the consumer reads the
\* next message of the topic it subscribed to
Deliver ==
  /\ consumed < Len(kafka[get_kafka_topic_consumer])
  /\ process_message(kafka[get_kafka_topic_consumer][consumed + 1])
  /\ consumed' = consumed + 1
  /\ UNCHANGED << PROJECT_TOPIC, producer, seen_ids, data_file, kafka, polls >>

\* producer and consumer started together, with PROJECT_TOPIC set or not
\* and Kafka reachable or not
PipelineInit ==
  /\ ConsumerInit
  /\ \E topic \in {Unset, "quakes"}, connected \in BOOLEAN :
       ProducerInit(topic, connected)

PipelineNext ==
  \/ \E response \in Responses : Poll(response)
  \/ Deliver
  \/ \E s \in TickSteps : Tick(s)

Pipeline == PipelineInit /\ [][PipelineNext]_vars

(***************************************************************************)
(* Vocabulary of the properties                                            *)
(***************************************************************************)
\* the positions of the buffer inside the window at time t
LiveWindow(t) ==
  { i \in DOMAIN quake_data : t - quake_data[i].timestamp <= ROLLING_MINUTES }

\* the quakes the last pass took as the live window
Live == Range(last_pass.recent)

\* the quakes drawn as a dot on either map
Plotted ==
  { ax_main.dots[k].q : k \in DOMAIN ax_main.dots }
    \cup { ax_ak.dots[k].q : k \in DOMAIN ax_ak.dots }

\* two buffered quakes lie within the cluster radius of each other
WithinEps(i, j) ==
  haversine(quake_data[i].lat, quake_data[i].lon,
            quake_data[j].lat, quake_data[j].lon) <= CLUSTER_RADIUS_KM * 1000

\* the quakes of L joined to a quake of S by a chain of hops of at most the
\* cluster radius
RECURSIVE Chain(_, _)
Chain(S, L) ==
  LET T == S \cup { j \in L : \E i \in S : WithinEps(i, j) }
  IN IF T = S THEN S ELSE Chain(T, L)

DensityConnected(i, j) == j \in Chain({i}, Live)

AgeAtPass(i) == last_pass.at - quake_data[i].timestamp

(***************************************************************************)
(* C1: in every evaluation pass the window the pass works on is exactly    *)
(* the set of buffered quakes with now - observedAt <= W (a quake exactly  *)
(* W minutes old is in, an older one is out), and a pass that completes    *)
(* draws exactly those quakes.                                             *)
(***************************************************************************)
C1_WindowIsExact ==
  /\ last_pass.status # "none" => Live = LiveWindow(last_pass.at)
  /\ last_pass.status = "completed" => Plotted = LiveWindow(last_pass.at)

\* a completed pass that keeps a quake exactly W minutes old
C1_Witness ==
  /\ last_pass.status = "completed"
  /\ \E i \in Plotted : AgeAtPass(i) = ROLLING_MINUTES
  /\ Cardinality(Plotted) >= 2

(***************************************************************************)
(* C2: after every evaluation pass the buffer quake_data holds no quake    *)
(* older than W minutes.                                                   *)
(***************************************************************************)
C2_BufferHoldsOnlyLive ==
  (last_pass.status = "completed" /\ last_pass.at = now) =>
    \A i \in DOMAIN quake_data : now - quake_data[i].timestamp <= ROLLING_MINUTES

(***************************************************************************)
(* C3: in every completed pass two live quakes within the cluster radius   *)
(* of each other carry the same non-noise label, wherever on the map they  *)
(* are, and a live quake farther than the radius from every other live     *)
(* quake is noise.                                                         *)
(***************************************************************************)
C3_NearbyQuakesShareLabel ==
  last_pass.status = "completed" =>
    \A i \in Live :
      /\ \A j \in Live \ {i} :
           WithinEps(i, j) =>
             /\ quake_data[i].cluster = quake_data[j].cluster
             /\ quake_data[i].cluster # NOISE
      /\ (\A j \in Live \ {i} : ~WithinEps(i, j)) => quake_data[i].cluster = NOISE

(***************************************************************************)
(* C4: a rejected message (invalid JSON, no coordinates, no magnitude, a   *)
(* coordinate list of fewer than two entries, a coordinate or magnitude    *)
(* that is no number) leaves the buffer as it was and raises nothing.      *)
(***************************************************************************)
Malformed(m) ==
  \/ m.shape # "object"
  \/ "coordinates" \notin m.keys
  \/ "mag" \notin m.keys
  \/ Len(m.coordinates) < 2
  \/ m.coordinates[1] = Str
  \/ m.coordinates[2] = Str
  \/ m.mag = Str

C4_RejectedLeavesBuffer ==
  [][ \A m \in Messages :
        (Malformed(m) /\ process_message(m)) =>
          (quake_data' = quake_data /\ ~raised') ]_vars

(***************************************************************************)
(* C5: a record with two numeric coordinates and a numeric magnitude >= 0  *)
(* (0 included) is accepted: process_message appends exactly one quake     *)
(* with those coordinates and that magnitude.                              *)
(***************************************************************************)
WellFormed(m) ==
  /\ m.shape = "object"
  /\ {"coordinates", "mag"} \subseteq m.keys
  /\ Len(m.coordinates) >= 2
  /\ m.coordinates[1] # Str
  /\ m.coordinates[2] # Str
  /\ m.mag # Str
  /\ m.mag >= 0

C5_WellFormedIsAccepted ==
  \A m \in Messages :
    WellFormed(m) =>
      /\ path(m) = "ingest"
      /\ Len(quake_data) < MaxQuakes =>
           LET after == ingest(m).quakes
               n == Len(quake_data)
           IN /\ Len(after) = n + 1
              /\ \A i \in 1 .. n : [after[i] EXCEPT !.cluster = NoCluster]
                                     = [quake_data[i] EXCEPT !.cluster = NoCluster]
              /\ after[n + 1].lon = m.coordinates[1]
              /\ after[n + 1].lat = m.coordinates[2]
              /\ after[n + 1].mag = m.mag

(***************************************************************************)
(* C6: when a pass fails, the failure does not leave process_message, the  *)
(* buffer is intact, and the pass of the next valid quake completes.       *)
(***************************************************************************)
C6_FailedPassDoesNotSpread ==
  [][ \A m \in Messages :
        ( /\ last_pass.status = "failed"
          /\ WellFormed(m)
          /\ process_message(m)
          /\ Len(quake_data') = Len(quake_data) + 1 )
        => ( /\ ~raised'
             /\ \A i \in DOMAIN quake_data :
                  [quake_data'[i] EXCEPT !.cluster = NoCluster]
                    = [quake_data[i] EXCEPT !.cluster = NoCluster]
             /\ last_pass'.status = "completed" ) ]_vars

(***************************************************************************)
(* C7: a buffered quake is immutable: no cluster label computed in a pass  *)
(* stays on a quake of the buffer after the pass has ended.                *)
(***************************************************************************)
C7_NoLabelOnBufferedQuake ==
  \A i \in DOMAIN quake_data : quake_data[i].cluster = NoCluster

(***************************************************************************)
(* C8: within one completed pass a non-noise label names one cluster: two  *)
(* live quakes carry the same non-noise label only if they are density-    *)
(* connected, and there is exactly one circle per non-noise label.         *)
(***************************************************************************)
AllCircles == ax_main.circles \o ax_ak.circles

C8_LabelNamesOneCluster ==
  last_pass.status = "completed" =>
    /\ \A i, j \in Live :
         ( /\ quake_data[i].cluster = quake_data[j].cluster
           /\ quake_data[i].cluster # NOISE ) => DensityConnected(i, j)
    /\ \A i \in Live :
         quake_data[i].cluster # NOISE =>
           \E k \in DOMAIN AllCircles : AllCircles[k].label = quake_data[i].cluster
    /\ \A k, l \in DOMAIN AllCircles :
         AllCircles[k].label = AllCircles[l].label => k = l

(***************************************************************************)
(* C9: the result of a completed pass depends on the live window alone:    *)
(* the labels and circles are those the pass computes on a buffer that     *)
(* holds just the window's quakes, in the same order, never labelled       *)
(* before; earlier passes and aged-out quakes change nothing.              *)
(***************************************************************************)
\* the quakes inside the window at the last pass, as a fresh buffer
FreshWindow ==
  LET live == Sorted(LiveWindow(last_pass.at))
  IN [k \in DOMAIN live |-> [quake_data[live[k]] EXCEPT !.cluster = NoCluster]]

FreshPass ==
  plot_earthquakes_with_clusters(FreshWindow, CLUSTER_RADIUS_KM, ROLLING_MINUTES,
                                 last_pass.at, NoAxis, NoAxis, NoText)

\* the circles of an axis with the members named by position in the window
CirclesInWindow(circles, offset) ==
  [c \in DOMAIN circles |->
     [circles[c] EXCEPT !.members =
        [k \in DOMAIN circles[c].members |-> circles[c].members[k] - offset]]]

C9_PassDependsOnWindowOnly ==
  last_pass.status = "completed" =>
    LET live   == Sorted(LiveWindow(last_pass.at))
        offset == Len(quake_data) - Len(live)
    IN \E r \in { FreshPass } :
         /\ r.status = "completed"
         /\ \A k \in DOMAIN live :
              r.quakes[k].cluster = quake_data[live[k]].cluster
         /\ r.main.circles = CirclesInWindow(ax_main.circles, offset)
         /\ r.ak.circles = CirclesInWindow(ax_ak.circles, offset)

\* a completed pass over three or more live quakes, run after a labelled quake
\* has aged out, in which an older live quake is in cluster 0
C9_Witness ==
  /\ last_pass.status = "completed"
  /\ \E i \in DOMAIN quake_data : i \notin Live /\ quake_data[i].cluster # NoCluster
  /\ Cardinality(Live) >= 3
  /\ \E i \in Live : quake_data[i].cluster = 0 /\ i < Len(quake_data) - 1

(***************************************************************************)
(* C10: a quake's time stamp is the clock at ingest, never the time the    *)
(* message carries; so the time stamps of the buffer never decrease along  *)
(* the buffer and the live window is a contiguous suffix of the buffer.    *)
(***************************************************************************)
C10_StampedAtIngest ==
  LET n == Len(quake_data)
  IN /\ \A i \in 1 .. n : quake_data[i].timestamp <= now
     /\ \A i, j \in 1 .. n : i <= j => quake_data[i].timestamp <= quake_data[j].timestamp
     /\ n > 0 => quake_data[n].timestamp = last_pass.at
     /\ LiveWindow(now) = (n - Cardinality(LiveWindow(now)) + 1) .. n

\* a buffer of quakes stamped at different times, part of it aged out
C10_Witness ==
  /\ Len(quake_data) >= 3
  /\ LiveWindow(now) # {}
  /\ LiveWindow(now) # DOMAIN quake_data
  /\ quake_data[2].timestamp > quake_data[1].timestamp

(***************************************************************************)
(* C11: every circle drawn around a cluster covers the cluster: its radius *)
(* is the largest distance from the centroid to a member, times 1.2, so    *)
(* no member lies farther from the centroid than the radius.               *)
(***************************************************************************)
\* the distance from the centroid of circle c to its k-th member
MemberDistance(c, k) ==
  haversine_from_centroid(c.lat_sum, c.lon_sum, Len(c.members),
                          quake_data[c.members[k]].lat,
                          quake_data[c.members[k]].lon)

C11_MembersInsideCircle ==
  \A n \in DOMAIN AllCircles :
    \E c \in { AllCircles[n] } :
      /\ \A k \in DOMAIN c.members : MemberDistance(c, k) <= c.radius
      /\ \E k \in DOMAIN c.members : c.radius = (MemberDistance(c, k) * 12) \div 10

\* a circle around three or more quakes that lie at different distances from
\* the centroid
C11_Witness ==
  \E n \in DOMAIN AllCircles :
    \E c \in { AllCircles[n] } :
      /\ Len(c.members) >= 3
      /\ \E k, l \in DOMAIN c.members :
           0 < MemberDistance(c, k) /\ MemberDistance(c, k) < MemberDistance(c, l)

(***************************************************************************)
(* C12: as the module documentation says ("Colored clusters for nearby     *)
(* quakes (3+ within 100km)"), a quake is drawn in a cluster colour only   *)
(* when it is one of three or more live quakes within 100 km; a quake with *)
(* fewer than two such neighbours is drawn as a red dot (label NOISE).     *)
(***************************************************************************)
\* "(3+ within 100km)" of the module documentation
DOC_MIN_QUAKES == 3
DOC_RADIUS_KM == 100

\* the dots of both maps
AllDots == ax_main.dots \o ax_ak.dots

\* the other live quakes within the documented radius of quake i
DocNeighbours(i) ==
  { j \in Live \ {i} :
      haversine(quake_data[i].lat, quake_data[i].lon,
                quake_data[j].lat, quake_data[j].lon) <= DOC_RADIUS_KM * 1000 }

C12_ClusterAsDocumented ==
  last_pass.status = "completed" =>
    \A d \in DOMAIN AllDots :
      Cardinality(DocNeighbours(AllDots[d].q)) + 1 < DOC_MIN_QUAKES
        => AllDots[d].label = NOISE

(***************************************************************************)
(* C13: each accepted record triggers exactly one evaluation pass, run     *)
(* after the quake is appended and before the next message is read, and a  *)
(* rejected record triggers none: there are as many passes as buffered     *)
(* quakes.  The window of the last pass is not empty, was taken at the     *)
(* time the newest quake was stamped, and ends with the newest quake,      *)
(* which is the quake the status text of a completed pass reports.         *)
(***************************************************************************)
C13_OnePassPerAcceptedEvent ==
  LET n == Len(quake_data)
  IN /\ passes = n
     /\ n = 0 => last_pass.status = "none"
     /\ n > 0 =>
          /\ last_pass.status \in {"completed", "failed"}
          /\ last_pass.recent # << >>
          /\ last_pass.recent[Len(last_pass.recent)] = n
          /\ last_pass.at = quake_data[n].timestamp
     /\ last_pass.status = "completed" =>
          status_text = [mag |-> quake_data[n].mag, lat |-> quake_data[n].lat,
                         lon |-> quake_data[n].lon,
                         stamp |-> quake_data[n].timestamp]

\* several quakes were accepted, the pass of the newest completed over a
\* window of two or more quakes, and time has passed since
C13_Witness ==
  /\ Len(quake_data) >= 2
  /\ passes = Len(quake_data)
  /\ Len(last_pass.recent) >= 2
  /\ last_pass.status = "completed"
  /\ now > last_pass.at

(***************************************************************************)
(* C14: in every completed pass each live quake gets exactly one label:    *)
(* the Alaska group (lon < -130 and lat > 50) and the main group partition *)
(* the window, so every live quake is drawn once, on the map of its        *)
(* group, with the label it carries, and no other quake is drawn.          *)
(***************************************************************************)
\* the positions among the dots of a map that draw quake i
DotsOf(dots, i) == { d \in DOMAIN dots : dots[d].q = i }

C14_SplitIsPartition ==
  last_pass.status = "completed" =>
    /\ \A i \in Live :
         /\ Cardinality(DotsOf(ax_main.dots, i)) + Cardinality(DotsOf(ax_ak.dots, i)) = 1
         /\ DotsOf(ax_ak.dots, i) # {} <=> InAlaska(quake_data[i])
         /\ \A d \in DotsOf(AllDots, i) : AllDots[d].label = quake_data[i].cluster
    /\ \A d \in DOMAIN AllDots : AllDots[d].q \in Live

\* a completed pass over quakes of both groups
C14_Witness ==
  /\ last_pass.status = "completed"
  /\ Len(ax_ak.dots) >= 1
  /\ Len(ax_main.dots) >= 2

(***************************************************************************)
(* C17: with min_samples = 2 the grouping of the quakes handed to DBSCAN   *)
(* into clusters and noise does not depend on their order: every quake     *)
(* with a non-noise label is a core point, and the clusters are exactly    *)
(* the connected components of two or more quakes of the "within the       *)
(* cluster radius" graph over the quakes of the map.                       *)
(***************************************************************************)
\* the quakes drawn on a map, and their coordinates in the order drawn
DrawnOn(dots) == { dots[d].q : d \in DOMAIN dots }

RowsOf(dots) ==
  [d \in DOMAIN dots |-> [lat |-> quake_data[dots[d].q].lat,
                          lon |-> quake_data[dots[d].q].lon]]

\* the clusters of a map: the sets of quakes that share a non-noise label
ClustersOf(dots) ==
  { { dots[d].q : d \in { e \in DOMAIN dots : dots[e].label = l } }
      : l \in { dots[d].label : d \in DOMAIN dots } \ {NOISE} }

\* the connected components of two or more quakes among the quakes of a map
ComponentsOf(dots) ==
  { C \in { Chain({i}, DrawnOn(dots)) : i \in DrawnOn(dots) } : Cardinality(C) >= 2 }

\* the clusters DBSCAN finds when the rows are handed over in the order perm
ClustersInOrder(dots, perm) ==
  LET rows   == RowsOf(dots)
      labels == DBSCAN([k \in DOMAIN perm |-> rows[perm[k]]],
                       CLUSTER_RADIUS_KM * 1000, min_samples)
  IN { { dots[perm[k]].q : k \in { e \in DOMAIN perm : labels[e] = l } }
         : l \in Range(labels) \ {NOISE} }

\* two reorderings that generate every permutation: the first row moved to
\* the end, and the first two rows exchanged
Rotated(n) == [k \in 1 .. n |-> IF k = n THEN 1 ELSE k + 1]

Swapped(n) == [k \in 1 .. n |-> IF k = 1 /\ n >= 2 THEN 2 ELSE IF k = 2 THEN 1 ELSE k]

GroupingIsOrderFree(dots) ==
  /\ \A d \in DOMAIN dots :
       dots[d].label # NOISE =>
         IsCore(RowsOf(dots), d, CLUSTER_RADIUS_KM * 1000, min_samples)
  /\ ClustersOf(dots) = ComponentsOf(dots)
  /\ ClustersInOrder(dots, Rotated(Len(dots))) = ClustersOf(dots)
  /\ ClustersInOrder(dots, Swapped(Len(dots))) = ClustersOf(dots)

C17_GroupingIsOrderFree ==
  last_pass.status = "completed" =>
    GroupingIsOrderFree(ax_main.dots) /\ GroupingIsOrderFree(ax_ak.dots)

\* a completed pass whose main map holds a cluster of two quakes farther
\* apart than the radius, chained through a quake that arrived after both
C17_Witness ==
  /\ last_pass.status = "completed"
  /\ Len(ax_main.dots) >= 3
  /\ \E a, b \in DrawnOn(ax_main.dots) :
       /\ ~WithinEps(a, b)
       /\ quake_data[a].cluster = quake_data[b].cluster
       /\ quake_data[a].cluster # NOISE
       /\ a < b
       /\ \E c \in DrawnOn(ax_main.dots) : c > b /\ WithinEps(a, c) /\ WithinEps(c, b)

(***************************************************************************)
(* C15: fetch_earthquake_events yields only new events: whatever the polls *)
(* return (overlapping lists, repeated features, failures), each event id  *)
(* is yielded at most once.                                                *)
(***************************************************************************)
C15_YieldedAtMostOnce ==
  \A k, l \in DOMAIN data_file :
    IdOf(data_file[k]) = IdOf(data_file[l]) => k = l

\* every poll allowed was made, two or more events were yielded, and an id
\* was marked seen in a poll that failed
C15_Witness ==
  /\ polls = MaxPolls
  /\ Len(data_file) >= 2
  /\ Cardinality(seen_ids) > Len(data_file)

(***************************************************************************)
(* C16: an event id is in seen_ids only if the event has been yielded: an  *)
(* event whose message could not be built (no "time" property) is not      *)
(* marked seen, so that a later poll yields it.                            *)
(***************************************************************************)
C16_SeenOnlyIfYielded ==
  \A id \in seen_ids : \E k \in DOMAIN data_file : IdOf(data_file[k]) = id

(***************************************************************************)
(* C18: with PROJECT_TOPIC not set the producer publishes to the topic     *)
(* the consumer subscribes to: every message sent is on the topic the      *)
(* consumer reads, where the consumer gets to it.                          *)
(***************************************************************************)
C18_SentWhereConsumerReads ==
  PROJECT_TOPIC = Unset =>
    \A t \in Topics : kafka[t] # << >> => t = get_kafka_topic_consumer

====
